---------------------------- MODULE Spec2Model ----------------------------
(***************************************************************************)
(* Stepped SPI-mode SD card driver (Project_2A_Base/Source/sd_io.c) and    *)
(* its transaction dispatcher Task_SD_Server (README.md, lines 65-162).    *)
(*                                                                         *)
(* Every call of SD_Init, SD_Read, SD_Write or Task_SD_Server is one       *)
(* action: the statics of the C functions are the variables, and what a    *)
(* call does to them is read off the switch arm it executes.               *)
(*                                                                         *)
(* The SPI transport (spi_io.c) is not part of the sources.  It is         *)
(* modelled from the interface of the specification: a byte exchange, a    *)
(* chip select, and one restartable countdown timer.  The card at the      *)
(* other end of the bus keeps the blocks written to it and replays them on *)
(* read; everything else it answers is chosen nondeterministically.        *)
(***************************************************************************)
EXTENDS Integers, Sequences, FiniteSets, TLC

(***************************************************************************)
(* Bounds of the model.                                                    *)
(***************************************************************************)
\* Bytes in a data block.  sd_io.h sets SD_BLK_SIZE to 512; no step of the
\* driver depends on the value, so the model runs with a short block.
SD_BLK_SIZE == 16
\* Calls the test thread makes (SpecDriver).
MaxCalls == 3
\* Requests the requester submits (Spec).
MaxRequests == 2
\* Bus resets one negotiation may make.  sd_io.h sets SD_INIT_TRYS, "a small
\* fixed count"; its value is not in the sources.
SD_INIT_TRYS == 2
\* The idle bytes a card sends before the token of a read, at most.
MaxIdle == 2

(***************************************************************************)
(* Values.                                                                 *)
(***************************************************************************)
Byte == 0..255
\* SDRESULTS, named as in SD_Errors (sd_io.c, lines 21-29).
SDRESULTS ==
    {"SD_OK", "SD_NOINIT", "SD_ERROR", "SD_PARERR", "SD_BUSY", "SD_REJECT",
     "SD_NORESPONSE"}
\* WORD is 16 bits and BYTE is 8.
WORD_MOD == 2 ^ 16
BYTE_MOD == 2 ^ 8
\* A DWORD is 32 bits: the pair <<high word, low word>>, with arithmetic
\* modulo 2^32.
DW(x) == <<(x \div WORD_MOD) % WORD_MOD, x % WORD_MOD>>
DwLess(a, b) == (a[1] < b[1]) \/ (a[1] = b[1] /\ a[2] < b[2])
DwAdd(a, b) ==
    <<(a[1] + b[1] + ((a[2] + b[2]) \div WORD_MOD)) % WORD_MOD,
      (a[2] + b[2]) % WORD_MOD>>
DwPred(a) ==
    IF a[2] = 0 THEN <<(a[1] + WORD_MOD - 1) % WORD_MOD, WORD_MOD - 1>>
    ELSE <<a[1], a[2] - 1>>
DwHalf(a) == <<a[1] \div 2, (a[2] \div 2) + (a[1] % 2) * (WORD_MOD \div 2)>>
\* The product of two DWORDs, by bytes: no intermediate value exceeds
\* what the checker's integers hold.  x and y are the bytes of the factors,
\* least significant first.
DwBytes(a) == <<a[2] % BYTE_MOD, a[2] \div BYTE_MOD,
                a[1] % BYTE_MOD, a[1] \div BYTE_MOD>>
DwMulBytes(x, y) ==
    LET c0 == x[1] * y[1]
        c1 == x[1] * y[2] + x[2] * y[1] + (c0 \div BYTE_MOD)
        c2 == x[1] * y[3] + x[2] * y[2] + x[3] * y[1] + (c1 \div BYTE_MOD)
        c3 == x[1] * y[4] + x[2] * y[3] + x[3] * y[2] + x[4] * y[1]
                + (c2 \div BYTE_MOD)
    IN  <<(c3 % BYTE_MOD) * BYTE_MOD + (c2 % BYTE_MOD),
          (c1 % BYTE_MOD) * BYTE_MOD + (c0 % BYTE_MOD)>>
DwMul(a, b) ==
    CHOOSE p \in {DwMulBytes(x, y) : x \in {DwBytes(a)}, y \in {DwBytes(b)}} :
       TRUE

\* Sector numbers the callers use, buffers and device descriptors there are.
Sectors == {0, 4}
BufIds == {0, 1}
DevIds == {0, 1}
\* buffer[512] of the test thread: one block long.
BufLen == SD_BLK_SIZE

\* R1 responses of the card: ready, idle, a response with an error bit
\* (illegal command while idle), and no response within 5 ms (bit 7 set).
R1Set == {0, 1, 5, 255}
\* Bytes the card may return while the host waits for the data packet:
\* not ready, data-start token, data-error token.
TokenSet == {255, 254, 1}
\* Data-response tokens: accepted (xxx00101), CRC error (xxx01011) and
\* write error (xxx01101).
DataRespSet == {229, 235, 13}
\* Bytes on the busy line: busy, ready.
BusyLineSet == {0, 255}
\* The two CRC bytes that follow a data block on read.
CrcByte(i) == IF i = 0 THEN 170 ELSE 187

(***************************************************************************)
(* Block contents.                                                         *)
(***************************************************************************)
\* What the card holds in sector s before anything is written.
CardPattern(s) == [i \in 0..(SD_BLK_SIZE - 1) |-> (16 * (s + 1) + i) % 256]
\* An erased buffer (part_000, lines 103-104).
ErasedBuffer == [i \in 0..(BufLen - 1) |-> 0]
\* The sample data of the test thread (part_000, lines 118-119): 0xFEEDDC0D
\* at the start and 0xACE0FC0D in the last four bytes, little-endian.
SampleBuffer ==
    [i \in 0..(BufLen - 1) |->
        CASE i = 0 -> 13 [] i = 1 -> 220 [] i = 2 -> 237 [] i = 3 -> 254
          [] i = BufLen - 4 -> 13 [] i = BufLen - 3 -> 252
          [] i = BufLen - 2 -> 224 [] i = BufLen - 1 -> 172
          [] OTHER -> 0]
\* A buffer with a different byte at every index.
RampBuffer == [i \in 0..(BufLen - 1) |-> (200 - 3 * i) % 256]

VARIABLES
    \* ---- device descriptors and memory
    dev,               \* SD_DEV: cardtype, mount, last_sector, debug.read/write
    mem,               \* the byte buffers
    oob,               \* a store beyond the end of a buffer has happened
    \* ---- statics of SD_Read (sd_io.c, lines 519-524)
    r_res, tkn, data, byte_num, pointer, rn_state, read_status,
    \* ---- statics of SD_Write (sd_io.c, lines 658-661)
    idx, line, n_state, idle_busy_status,
    \* ---- statics of SD_Init (sd_io.c, lines 210-213)
    n, k, cmd, ct, ocr, init_trys, in_states, in_status,
    blocked,           \* a call of SD_Init is inside a loop it never leaves
    \* ---- Task_SD_Server (README.md, lines 65, 78-81)
    g_trans, cur_trans, next_state, res,
    \* ---- transport
    timer,             \* "running", "expired" or "stopped"
    bus,               \* "selected" or "released"
    freq,              \* "low" or "high"
    \* ---- the card
    card_blocks,       \* sector -> block
    card_cur,          \* sector of the command in progress
    card_pos,          \* bytes of the data packet clocked out so far
    card_rx,           \* bytes of the data packet received so far
    card_kind,         \* which card is in the socket
    card_csd,          \* the 16 bytes of the card's CSD register
    timer_kind,        \* what the timer query answers for a stopped timer
    \* ---- observations of the transport mock, per operation
    probe,
    rx_log,            \* bytes received while a read waited for its token
    \* ---- callers
    pc, call, prev, ncalls,
    requester,         \* the requester of the dispatcher and what it saw
    accepted           \* the descriptor as it was when last accepted

devVars == <<dev, mem, oob>>
readVars == <<r_res, tkn, data, byte_num, pointer, rn_state, read_status>>
writeVars == <<idx, line, n_state, idle_busy_status>>
initVars == <<n, k, cmd, ct, ocr, init_trys, in_states, in_status, blocked>>
serverVars == <<g_trans, cur_trans, next_state>>
spiVars == <<timer, bus, freq>>
cardVars == <<card_blocks, card_cur, card_pos, card_rx>>
envVars == <<card_kind, timer_kind, card_csd>>
logVars == <<rx_log>>
callerVars == <<pc, call, prev, ncalls, requester, accepted>>
vars ==
    <<devVars, readVars, writeVars, initVars, serverVars, res, spiVars,
      cardVars, envVars, probe, logVars, callerVars>>

(***************************************************************************)
(* Transport (spi_io.c, not in the sources; modelled from the interface    *)
(* of the specification).                                                  *)
(***************************************************************************)
\* The cards: "any" answers every exchange with any byte of its response
\* set; "stalled" accepts every command and then holds the data line: no
\* data-start token, busy line low for ever; "v1" and "v2" are working
\* cards of version 1 and version 2; "deaf" never acknowledges go-idle.
R1Answers == IF card_kind = "stalled" THEN {0} ELSE R1Set
TokenAnswers == IF card_kind = "stalled" THEN {255} ELSE TokenSet
BusyAnswers == IF card_kind = "stalled" THEN {0} ELSE BusyLineSet

\* What SPI_Timer_Status() may answer for a timer that SPI_Timer_Off()
\* stopped: the interface only says what a started timer answers.
StoppedTimerStatus ==
    CASE timer_kind = "flag" -> {TRUE}      \* the query reads an expiry flag
      [] timer_kind = "strict" -> {FALSE}   \* a stopped timer is not running
      [] OTHER -> {TRUE, FALSE}
\* SPI_Timer_Status(): TRUE while the countdown started last is running.
SPI_Timer_Status(t) ==
    CASE t = "running" -> {TRUE}
      [] t = "expired" -> {FALSE}
      [] OTHER -> StoppedTimerStatus

\* The observations of the mock, cleared when an operation begins.
\* any: some transport call was made; busy_rw: a byte of the busy line was
\* read; busy_timer: the busy timer was started; resp: the data-response
\* token read (-1: none); start_tok: the data-start token arrived; refused:
\* the card refused a command, sent a data-error token or sent no token
\* before the timeout; arg: the sector sent with CMD17 or CMD24 (-1: none);
\* cleared: a byte of the busy line was not 0; expired: the busy wait ended
\* on a call that found the timer expired; resets: bus resets of the
\* negotiation; trailer: a trailer byte of the R7 response was read;
\* cmd_ok: the card accepted CMD17 or CMD24; csd_ok: the card accepted CMD9.
NoProbe ==
    [any |-> FALSE, busy_rw |-> FALSE, busy_timer |-> FALSE, resp |-> -1,
     start_tok |-> FALSE, refused |-> FALSE, arg |-> -1, cleared |-> FALSE,
     expired |-> FALSE, resets |-> 0, trailer |-> FALSE, cmd_ok |-> FALSE,
     csd_ok |-> FALSE]
\* Some transport call was made.
Touched(p) == [p EXCEPT !.any = TRUE]

(***************************************************************************)
(* Memory.                                                                 *)
(***************************************************************************)
\* A pointer into a buffer; statics of pointer type start as null.
NullPointer == [buf |-> -1, off |-> 0]
\* *(BYTE*)p = v.  A store beyond the end of the buffer is undefined
\* behaviour: the buffers of the model are left as they are and the store is
\* recorded in oob.
StoreByte(m, p, v) ==
    IF p.off < BufLen THEN [m EXCEPT ![p.buf][p.off] = v] ELSE m
StoreOverruns(p) == p.off >= BufLen

(***************************************************************************)
(* The card.                                                               *)
(***************************************************************************)
\* The byte the card clocks out at position p of a read data packet: the
\* block of the addressed sector, then two CRC bytes.
CardDataByte(blocks, s, p) ==
    IF p < SD_BLK_SIZE THEN blocks[s][p] ELSE CrcByte(p - SD_BLK_SIZE)
\* The card programs the block it received when it accepts the packet.
CardCommit(blocks, s, rx, tok) ==
    IF (tok % 32) = 5 /\ s \in DOMAIN blocks /\ Len(rx) = SD_BLK_SIZE
    THEN [blocks EXCEPT ![s] = [i \in 0..(SD_BLK_SIZE - 1) |-> rx[i + 1]]]
    ELSE blocks

(***************************************************************************)
(* Decisions of the driver, one operator per condition of the source.      *)
(***************************************************************************)
\* sector > dev->last_sector (sd_io.c, lines 530 and 666).
SectorOutOfRange(sector, last_sector) == DwLess(last_sector, DW(sector))
\* cnt == 0 (sd_io.c, line 530).
EmptyCount_NoCheck(cnt) == FALSE
EmptyCount(cnt) == cnt = 0
\* (byte_num >= ofs) && (byte_num < ofs+cnt) (sd_io.c, lines 593 and 616).
InWindow_OffByOne(b, ofs, cnt) == (b > ofs) /\ (b <= ofs + cnt)
InWindow(b, ofs, cnt) == (b >= ofs) /\ (b < ofs + cnt)
\* (SPI_RW(0xFF) & 0x1F) != 0x05 (sd_io.c, line 713).
DataRejected_NarrowMask(tok) == (tok % 8) # 5
DataRejected(tok) == (tok % 32) # 5
\* (line==0)&&(SPI_Timer_Status()==TRUE) (sd_io.c, line 739).
StillBusy_IgnoresTimer(l, running) == FALSE
StillBusy(l, running) == (l = 0) /\ running
\* (tkn==0xFF)&&(SPI_Timer_Status()==TRUE) (sd_io.c, line 568).
AwaitingToken_NoTimeout(t, running) == t = 255
AwaitingToken(t, running) == (t = 255) /\ running
\* tkn==0xFE (sd_io.c, line 589).
GotStartToken_AnyToken(t) == t # 255
GotStartToken(t) == t = 254
\* dev->debug.read++ (sd_io.c, line 638), on the descriptor of the device.
CountRead_CountsWriteToo(dv) == [dv EXCEPT !.read = @ + 1, !.write = @ + 1]
CountRead(dv) == [dv EXCEPT !.read = @ + 1]
\* dev->debug.write++ (sd_io.c, line 750).
CountWrite(dv) == [dv EXCEPT !.write = @ + 1]
\* idx != SD_BLK_SIZE (sd_io.c, line 700).
MoreToSend(i) == i # SD_BLK_SIZE
\* ++byte_num < SD_BLK_SIZE + 2 (sd_io.c, line 613), on the incremented value.
MoreToRead(b) == b < SD_BLK_SIZE + 2

(***************************************************************************)
(* SD_Write (sd_io.c, lines 655-781): one call.                            *)
(***************************************************************************)
SD_Write(d, dat, sector) ==
    CASE n_state = "S1" ->
           /\ IF SectorOutOfRange(sector, dev[d].last_sector)
              THEN /\ idle_busy_status' = 0
                   /\ res' = "SD_PARERR"
                   /\ UNCHANGED n_state
              ELSE /\ idle_busy_status' = 1
                   /\ n_state' = "S2"
                   /\ res' = "SD_OK"
           /\ UNCHANGED <<idx, line, dev, timer, bus, cardVars, probe>>
      [] n_state = "S2" ->
           \* __SD_Send_Cmd(CMD24, sector)
           \E r \in R1Answers :
              /\ timer' = "stopped"
              /\ bus' = "selected"
              /\ probe' = [probe EXCEPT !.any = TRUE, !.arg = sector,
                                        !.refused = (@ \/ r # 0),
                                        !.cmd_ok = (r = 0)]
              /\ IF r = 0
                 THEN \* SPI_RW(0xFE): the data packet begins
                      /\ idle_busy_status' = 1
                      /\ idx' = 0
                      /\ n_state' = "S3"
                      /\ res' = "SD_OK"
                      /\ card_cur' = sector
                      /\ card_rx' = <<>>
                      /\ UNCHANGED <<card_blocks, card_pos>>
                 ELSE /\ idle_busy_status' = 0
                      /\ res' = "SD_ERROR"
                      /\ UNCHANGED <<idx, n_state, cardVars>>
              /\ UNCHANGED <<line, dev>>
      [] n_state = "S3" ->
           IF MoreToSend(idx)
           THEN \* SPI_RW(*((BYTE*)dat + idx))
                /\ card_rx' = Append(card_rx, mem[dat][idx])
                /\ idx' = idx + 1
                /\ idle_busy_status' = 1
                /\ n_state' = "S3"
                /\ res' = "SD_OK"
                /\ probe' = Touched(probe)
                /\ UNCHANGED <<line, dev, timer, bus, card_blocks, card_cur,
                               card_pos>>
           ELSE \* two dummy CRC bytes, then the data-response token
                \E tok \in DataRespSet :
                   /\ card_blocks' = CardCommit(card_blocks, card_cur, card_rx, tok)
                   /\ probe' = [probe EXCEPT !.any = TRUE, !.resp = tok]
                   /\ IF DataRejected(tok)
                      THEN /\ idle_busy_status' = 0
                           /\ n_state' = "S1"
                           /\ res' = "SD_REJECT"
                      ELSE /\ idle_busy_status' = 1
                           /\ n_state' = "S4"
                           /\ res' = "SD_OK"
                   /\ UNCHANGED <<idx, line, dev, timer, bus, card_cur, card_pos,
                                  card_rx>>
      [] n_state = "S4" ->
           \* SPI_Timer_On(SD_IO_WRITE_TIMEOUT_WAIT); line = SPI_RW(0xFF)
           \E b \in BusyAnswers :
              /\ timer' = "running"
              /\ line' = b
              /\ idle_busy_status' = 1
              /\ n_state' = "S5"
              /\ res' = "SD_OK"
              /\ probe' = [probe EXCEPT !.any = TRUE, !.busy_rw = TRUE,
                                        !.busy_timer = TRUE,
                                        !.cleared = (b # 0)]
              /\ UNCHANGED <<idx, dev, bus, cardVars>>
      [] n_state = "S5" ->
           \E running \in SPI_Timer_Status(timer) :
              IF StillBusy(line, running)
              THEN \E b \in BusyAnswers :
                      /\ line' = b
                      /\ idle_busy_status' = 1
                      /\ n_state' = "S5"
                      /\ res' = "SD_OK"
                      /\ probe' = [probe EXCEPT !.any = TRUE, !.busy_rw = TRUE,
                                                !.cleared = (@ \/ b # 0)]
                      /\ UNCHANGED <<idx, dev, timer, bus, cardVars>>
              ELSE \* SPI_Timer_Off(); dev->debug.write++
                   /\ timer' = "stopped"
                   /\ dev' = [dev EXCEPT ![d] = CountWrite(@)]
                   /\ idle_busy_status' = 1
                   /\ n_state' = "S6"
                   /\ res' = "SD_OK"
                   /\ probe' = [probe EXCEPT !.any = TRUE,
                                             !.expired = (timer = "expired")]
                   /\ UNCHANGED <<idx, line, bus, cardVars>>
      [] n_state = "S6" ->
           /\ idle_busy_status' = 0
           /\ n_state' = "S1"
           /\ res' = IF line = 0 THEN "SD_BUSY" ELSE "SD_OK"
           /\ UNCHANGED <<idx, line, dev, timer, bus, cardVars, probe>>

(***************************************************************************)
(* SD_Read (sd_io.c, lines 516-652): one call.                             *)
(***************************************************************************)
\* data = SPI_RW(0xff), stored through pointer when byte b is in the window.
ReadByteAt(b, ofs, cnt) ==
    LET v == CardDataByte(card_blocks, card_cur, card_pos) IN
    /\ data' = v
    /\ card_pos' = card_pos + 1
    /\ IF InWindow(b, ofs, cnt)
       THEN /\ mem' = StoreByte(mem, pointer, v)
            /\ oob' = (oob \/ StoreOverruns(pointer))
            /\ pointer' = [pointer EXCEPT !.off = @ + 1]
       ELSE UNCHANGED <<mem, oob, pointer>>

SD_Read(d, dat, sector, ofs, cnt) ==
    CASE rn_state = "S1" ->
           /\ r_res' = "SD_ERROR"
           /\ pointer' = [buf |-> dat, off |-> 0]
           /\ IF SectorOutOfRange(sector, dev[d].last_sector) \/ EmptyCount(cnt)
              THEN /\ read_status' = 0
                   /\ res' = "SD_PARERR"
                   /\ UNCHANGED rn_state
              ELSE /\ read_status' = 1
                   /\ rn_state' = "S2"
                   /\ res' = "SD_OK"
           /\ UNCHANGED <<tkn, data, byte_num, dev, mem, oob, timer, bus,
                          cardVars, probe>>
      [] rn_state = "S2" ->
           \* __SD_Send_Cmd(CMD17, sector)
           \E r \in R1Answers :
              /\ bus' = "selected"
              /\ read_status' = 1
              /\ res' = "SD_OK"
              /\ IF r = 0
                 THEN \* SPI_Timer_On(100); tkn = SPI_RW(0xFF)
                      \E t \in TokenAnswers :
                         /\ timer' = "running"
                         /\ tkn' = t
                         /\ probe' = [probe EXCEPT !.any = TRUE,
                                                   !.arg = sector,
                                                   !.cmd_ok = TRUE,
                                                   !.start_tok = (t = 254),
                                                   !.refused = (t = 1)]
                         /\ rn_state' = "S3"
                         /\ card_cur' = sector
                         /\ card_pos' = 0
                         /\ UNCHANGED <<card_blocks, card_rx>>
                 ELSE /\ timer' = "stopped"
                      /\ rn_state' = "S6"
                      /\ probe' = [probe EXCEPT !.any = TRUE, !.arg = sector,
                                                !.refused = TRUE]
                      /\ UNCHANGED <<tkn, cardVars>>
              /\ UNCHANGED <<r_res, data, byte_num, pointer, dev, mem, oob>>
      [] rn_state = "S3" ->
           \E running \in SPI_Timer_Status(timer) :
              /\ read_status' = 1
              /\ res' = "SD_OK"
              /\ IF AwaitingToken(tkn, running)
                 THEN \E t \in TokenAnswers :
                         /\ tkn' = t
                         /\ rn_state' = "S3"
                         /\ probe' = [probe EXCEPT !.any = TRUE,
                                                   !.start_tok = (t = 254),
                                                   !.refused = (t = 1)]
                         /\ UNCHANGED timer
                 ELSE \* SPI_Timer_Off()
                      /\ timer' = "stopped"
                      /\ rn_state' = "S4"
                      /\ probe' = [probe EXCEPT !.any = TRUE,
                                                !.refused = (@ \/ tkn # 254)]
                      /\ UNCHANGED tkn
              /\ UNCHANGED <<r_res, data, byte_num, pointer, dev, mem, oob, bus,
                             cardVars>>
      [] rn_state = "S4" ->
           IF GotStartToken(tkn)
           THEN /\ byte_num' = 0
                /\ ReadByteAt(0, ofs, cnt)
                /\ read_status' = 1
                /\ rn_state' = "S5"
                /\ res' = "SD_OK"
                /\ probe' = Touched(probe)
                /\ UNCHANGED <<r_res, tkn, dev, timer, bus, card_blocks,
                               card_cur, card_rx>>
           ELSE /\ read_status' = 1
                /\ rn_state' = "S6"
                /\ res' = r_res
                /\ UNCHANGED <<r_res, tkn, data, byte_num, pointer, dev, mem,
                               oob, timer, bus, cardVars, probe>>
      [] rn_state = "S5" ->
           IF MoreToRead(byte_num + 1)
           THEN /\ byte_num' = byte_num + 1
                /\ ReadByteAt(byte_num + 1, ofs, cnt)
                /\ read_status' = 1
                /\ rn_state' = "S5"
                /\ res' = "SD_OK"
                /\ probe' = Touched(probe)
                /\ UNCHANGED <<r_res, tkn, dev, timer, bus, card_blocks,
                               card_cur, card_rx>>
           ELSE /\ byte_num' = byte_num + 1
                /\ r_res' = "SD_OK"
                /\ read_status' = 1
                /\ rn_state' = "S6"
                /\ res' = "SD_OK"
                /\ UNCHANGED <<tkn, data, pointer, dev, mem, oob, timer, bus,
                               cardVars, probe>>
      [] rn_state = "S6" ->
           \* SPI_Release(); dev->debug.read++
           /\ bus' = "released"
           /\ dev' = [dev EXCEPT ![d] = CountRead(@)]
           /\ read_status' = 0
           /\ rn_state' = "S1"
           /\ res' = r_res
           /\ probe' = Touched(probe)
           /\ UNCHANGED <<r_res, tkn, data, byte_num, pointer, mem, oob, timer,
                          cardVars>>

(***************************************************************************)
(* __SD_Send_Cmd (sd_io.c, lines 98-141).  The function sends the command  *)
(* frame, starts the timer for 5 ms, reads bytes until one has bit 7 clear *)
(* or the timer has expired, stops the timer and returns the last byte.    *)
(* An application command is CMD55 followed by the command; a CMD55        *)
(* response above 1 is returned as it is.                                  *)
(***************************************************************************)
IsACMD(c) == c \in {"ACMD41"}
Send_Cmd_Results(c) ==
    CASE card_kind = "v1" ->
           CASE c = "CMD0" -> {1}
             [] c = "CMD8" -> {5}
             [] c = "ACMD41" -> {1, 0}
             [] c \in {"CMD59", "CMD16"} -> {0}
             [] OTHER -> R1Set
      [] card_kind = "v2" ->
           CASE c \in {"CMD0", "CMD8"} -> {1}
             [] c = "ACMD41" -> {1, 0}
             [] c = "CMD58" -> {0}
             [] OTHER -> R1Set
      [] card_kind = "deaf" /\ c = "CMD0" -> R1Set \ {1}
      [] OTHER ->
           IF IsACMD(c) THEN {r \in R1Set : r > 1} \cup R1Set ELSE R1Set
\* After an accepted CMD9 the card sends the data-start token of the CSD
\* (TRUE) or 0xFF for ever (FALSE).
CsdTokenArrives ==
    IF card_kind \in {"v1", "v2"} THEN {TRUE} ELSE {TRUE, FALSE}

(***************************************************************************)
(* __SD_Sectors (sd_io.c, lines 143-195): the sector count decoded from    *)
(* the 16 bytes of the CSD register.  WORD is 16 bits, BYTE 8, DWORD 32.   *)
(***************************************************************************)
\* __SD_Power_Of_Two (sd_io.c, lines 77-83), in DWORD arithmetic.
RECURSIVE SD_Power_Of_Two(_)
SD_Power_Of_Two(e) ==
    IF e = 0 THEN DW(1)
    ELSE CHOOSE p \in {DwAdd(partial, partial) :
                          partial \in {SD_Power_Of_Two(e - 1)}} : TRUE
\* C_SIZE, C_SIZE_MULT and READ_BL_LEN as lines 161-187 leave them.
Csd_C_SIZE(csd, cardtype) ==
    IF "SD1" \in cardtype
    THEN ((((csd[6] % 4) * 256 + csd[7]) * 4) % WORD_MOD)
            + ((csd[8] \div 64) % 4)
    ELSE IF "SD2" \in cardtype
    THEN LET hi == ((csd[7] % 64) * 256) % WORD_MOD
             mid == ((hi - (hi % 256)) + csd[8])
             sh == (mid * 256) % WORD_MOD
         IN  sh + csd[9]
    ELSE 0
Csd_C_SIZE_MULT(csd, cardtype) ==
    IF "SD1" \in cardtype
    THEN (((csd[9] % 4) * 2) % BYTE_MOD) + ((csd[10] \div 128) % 2)
    ELSE IF "SD2" \in cardtype THEN 8
    ELSE 0
Csd_READ_BL_LEN(csd, cardtype) ==
    IF "SD1" \in cardtype THEN csd[5] % 16 ELSE 0
\* ss as lines 188-193 compute it.
SD_Sectors_Decode(csd, cardtype) ==
    LET s1 == DW(Csd_C_SIZE(csd, cardtype) + 1)
        s2 == DwMul(s1, SD_Power_Of_Two(Csd_C_SIZE_MULT(csd, cardtype) + 2))
    IN  DwMul(s2, SD_Power_Of_Two(Csd_READ_BL_LEN(csd, cardtype)))
\* __SD_Sectors for a CMD9 response r and a register content csd.
SD_Sectors(r, csd, cardtype) ==
    IF r = 0 THEN SD_Sectors_Decode(csd, cardtype) ELSE DW(0)

\* A CSD register with the given bytes 5 to 10, zero elsewhere.
MkCsd(b5, b6, b7, b8, b9, b10) ==
    [i \in 0..15 |->
        CASE i = 5 -> b5 [] i = 6 -> b6 [] i = 7 -> b7 [] i = 8 -> b8
          [] i = 9 -> b9 [] i = 10 -> b10 [] OTHER -> 0]
\* The register of a card whose fields are all zero.
ZeroCsd == MkCsd(0, 0, 0, 0, 0, 0)
\* The registers the card may hold: bytes 7 to 9 carry the 22-bit C_SIZE of
\* the version-2 layout (0, 0x1D3F, 0xFFFF, 0x10000, 0x3FFFFF); bytes 5 to 10
\* carry READ_BL_LEN, C_SIZE and C_SIZE_MULT of the version-1 layout
\* (9, 4095, 7 and 10, 1, 0).
CsdSet ==
    {ZeroCsd,
     MkCsd(0, 0, 0, 29, 63, 0),
     MkCsd(0, 0, 0, 255, 255, 0),
     MkCsd(0, 0, 1, 0, 0, 0),
     MkCsd(0, 0, 63, 255, 255, 0),
     MkCsd(9, 3, 255, 192, 3, 128),
     MkCsd(10, 0, 0, 64, 0, 0)}

\* Trailer of the R7 response to CMD8, byte i: the echo of the voltage
\* pattern, or a card that does not echo it.
R7Bytes(i) ==
    IF card_kind = "v2"
    THEN CASE i = 2 -> {1} [] i = 3 -> {170} [] OTHER -> {0}
    ELSE CASE i = 2 -> {1, 0} [] i = 3 -> {170, 0} [] OTHER -> {0}
\* OCR register after CMD58, byte i: bit 0x40 of the first byte is CCS.
OcrBytes(i) ==
    CASE i = 0 -> {192, 128} [] i = 1 -> {255} [] OTHER -> {0}

(***************************************************************************)
(* SD_Init (sd_io.c, lines 207-510): one call.  The card type flags        *)
(* SDCT_MMC, SDCT_SD1, SDCT_SD2 and SDCT_BLOCK are a set of names; 0 is    *)
(* the empty set.                                                          *)
(***************************************************************************)
\* (init_trys != SD_INIT_TRYS) && (!ct) (sd_io.c, line 229).
TryAgain_OneMore(trys, type) == (trys # SD_INIT_TRYS + 1) /\ (type = {})
TryAgain(trys, type) == (trys # SD_INIT_TRYS) /\ (type = {})
\* __SD_Send_Cmd(ACMD41, 0) <= 1 (sd_io.c, line 441).
AnswersAsSD_OnlyZero(r) == r = 0
AnswersAsSD(r) == r <= 1
\* (ocr[0] & 0x40) ? SDCT_SD2 | SDCT_BLOCK : SDCT_SD2 (sd_io.c, line 430).
TypeFromOcr_NoCcs(o) == {"SD2"}
TypeFromOcr(o) ==
    IF (o[1] \div 64) % 2 = 1 THEN {"SD2", "BLOCK"} ELSE {"SD2"}

SD_Init(d) ==
  /\ CASE in_states = "S0" ->
           /\ ct' = {}
           /\ init_trys' = 0
           /\ in_states' = "S1"
           /\ in_status' = 1
           /\ res' = "SD_OK"
           /\ UNCHANGED <<n, k, cmd, ocr, dev, spiVars, probe>>
      [] in_states = "S1" ->
           IF TryAgain(init_trys, ct)
           THEN \* SPI_Init(); SPI_CS_High(); SPI_Freq_Low(); ten dummy bytes
                /\ bus' = "released"
                /\ freq' = "low"
                /\ init_trys' = (init_trys + 1) % BYTE_MOD
                /\ in_states' = "S2"
                /\ in_status' = 1
                /\ res' = "SD_OK"
                /\ probe' = [probe EXCEPT !.any = TRUE, !.resets = @ + 1]
                /\ UNCHANGED <<n, k, cmd, ct, ocr, dev, timer>>
           ELSE /\ init_trys' = 0
                /\ in_states' = "S14"
                /\ in_status' = 1
                /\ res' = "SD_OK"
                /\ UNCHANGED <<n, k, cmd, ct, ocr, dev, spiVars, probe>>
      [] in_states = "S2" ->
           \* SPI_Timer_On(500)
           /\ timer' = "running"
           /\ in_states' = "S3"
           /\ in_status' = 1
           /\ res' = "SD_OK"
           /\ probe' = Touched(probe)
           /\ UNCHANGED <<n, k, cmd, ct, ocr, init_trys, dev, bus, freq>>
      [] in_states = "S3" ->
           \E running \in SPI_Timer_Status(timer) :
              /\ in_status' = 1
              /\ res' = "SD_OK"
              /\ probe' = Touched(probe)
              /\ IF running
                 THEN /\ in_states' = "S3"
                      /\ UNCHANGED <<dev, timer>>
                 ELSE \* SPI_Timer_Off(); dev->mount = FALSE; SPI_Timer_On(500)
                      /\ dev' = [dev EXCEPT ![d].mount = FALSE]
                      /\ timer' = "running"
                      /\ in_states' = "S4"
              /\ UNCHANGED <<n, k, cmd, ct, ocr, init_trys, bus, freq>>
      [] in_states = "S4" ->
           \* __SD_Send_Cmd(CMD0, 0) leaves the timer stopped
           \E r \in Send_Cmd_Results("CMD0"),
              running \in SPI_Timer_Status("stopped") :
              /\ timer' = "stopped"
              /\ bus' = "selected"
              /\ in_states' = IF (r # 1) /\ running THEN "S4" ELSE "S5"
              /\ in_status' = 1
              /\ res' = "SD_OK"
              /\ probe' = Touched(probe)
              /\ UNCHANGED <<n, k, cmd, ct, ocr, init_trys, dev, freq>>
      [] in_states = "S5" ->
           \E r \in Send_Cmd_Results("CMD0") :
              /\ timer' = "stopped"
              /\ bus' = "selected"
              /\ in_states' = IF r = 1 THEN "S6" ELSE "S1"
              /\ in_status' = 1
              /\ res' = "SD_OK"
              /\ probe' = Touched(probe)
              /\ UNCHANGED <<n, k, cmd, ct, ocr, init_trys, dev, freq>>
      [] in_states = "S6" ->
           \E r \in Send_Cmd_Results("CMD8") :
              /\ timer' = "stopped"
              /\ bus' = "selected"
              /\ IF r = 1
                 THEN /\ n' = 0
                      /\ in_states' = "S7"
                 ELSE /\ in_states' = "S11"
                      /\ UNCHANGED n
              /\ in_status' = 1
              /\ res' = "SD_OK"
              /\ probe' = Touched(probe)
              /\ UNCHANGED <<k, cmd, ct, ocr, init_trys, dev, freq>>
      [] in_states = "S7" ->
           IF n < 4
           THEN \E b \in R7Bytes(n) :
                   /\ ocr' = [ocr EXCEPT ![n + 1] = b]
                   /\ n' = n + 1
                   /\ in_states' = "S7"
                   /\ in_status' = 1
                   /\ res' = "SD_OK"
                   /\ probe' = [probe EXCEPT !.any = TRUE, !.trailer = TRUE]
                   /\ UNCHANGED <<k, cmd, ct, init_trys, dev, spiVars>>
           ELSE /\ IF (ocr[3] = 1) /\ (ocr[4] = 170)
                   THEN \* SPI_Timer_On(1000)
                        /\ timer' = "running"
                        /\ in_states' = "S8"
                        /\ probe' = Touched(probe)
                   ELSE /\ in_states' = "S1"
                        /\ UNCHANGED <<timer, probe>>
                /\ in_status' = 1
                /\ res' = "SD_OK"
                /\ UNCHANGED <<n, k, cmd, ct, ocr, init_trys, dev, bus, freq>>
      [] in_states = "S8" ->
           \E running \in SPI_Timer_Status(timer) :
              /\ IF running
                 THEN \* __SD_Send_Cmd(ACMD41, 1UL << 30)
                      \E r \in Send_Cmd_Results("ACMD41") :
                         /\ timer' = "stopped"
                         /\ bus' = "selected"
                         /\ in_states' = IF r # 0 THEN "S8" ELSE "S9"
                 ELSE \* SPI_Timer_Off()
                      /\ timer' = "stopped"
                      /\ in_states' = "S9"
                      /\ UNCHANGED bus
              /\ in_status' = 1
              /\ res' = "SD_OK"
              /\ probe' = Touched(probe)
              /\ UNCHANGED <<n, k, cmd, ct, ocr, init_trys, dev, freq>>
      [] in_states = "S9" ->
           \E running \in SPI_Timer_Status(timer) :
              /\ IF running
                 THEN \* __SD_Send_Cmd(CMD58, 0)
                      \E r \in Send_Cmd_Results("CMD58") :
                         /\ timer' = "stopped"
                         /\ bus' = "selected"
                         /\ probe' = Touched(probe)
                         /\ IF r = 0
                            THEN /\ k' = 0
                                 /\ in_states' = "S10"
                            ELSE /\ in_states' = "S1"
                                 /\ UNCHANGED k
                 ELSE /\ in_states' = "S1"
                      /\ UNCHANGED <<k, timer, bus, probe>>
              /\ in_status' = 1
              /\ res' = "SD_OK"
              /\ UNCHANGED <<n, cmd, ct, ocr, init_trys, dev, freq>>
      [] in_states = "S10" ->
           IF k < 4
           THEN \E b \in OcrBytes(k) :
                   /\ ocr' = [ocr EXCEPT ![k + 1] = b]
                   /\ k' = k + 1
                   /\ in_states' = "S10"
                   /\ in_status' = 1
                   /\ res' = "SD_OK"
                   /\ probe' = Touched(probe)
                   /\ UNCHANGED <<n, cmd, ct, init_trys, dev, spiVars>>
           ELSE /\ ct' = TypeFromOcr(ocr)
                /\ in_states' = "S1"
                /\ in_status' = 1
                /\ res' = "SD_OK"
                /\ UNCHANGED <<n, k, cmd, ocr, init_trys, dev, spiVars, probe>>
      [] in_states = "S11" ->
           \* __SD_Send_Cmd(ACMD41, 0); SPI_Timer_On(250)
           \E r \in Send_Cmd_Results("ACMD41") :
              /\ IF AnswersAsSD(r)
                 THEN ct' = {"SD1"} /\ cmd' = "ACMD41"
                 ELSE ct' = {"MMC"} /\ cmd' = "CMD1"
              /\ timer' = "running"
              /\ bus' = "selected"
              /\ in_states' = "S12"
              /\ in_status' = 1
              /\ res' = "SD_OK"
              /\ probe' = Touched(probe)
              /\ UNCHANGED <<n, k, ocr, init_trys, dev, freq>>
      [] in_states = "S12" ->
           \E running \in SPI_Timer_Status(timer) :
              /\ IF running
                 THEN \* __SD_Send_Cmd(cmd, 0)
                      \E r \in Send_Cmd_Results(cmd) :
                         /\ timer' = "stopped"
                         /\ bus' = "selected"
                         /\ in_states' = IF r # 0 THEN "S12" ELSE "S13"
                 ELSE \* SPI_Timer_Off()
                      /\ timer' = "stopped"
                      /\ in_states' = "S13"
                      /\ UNCHANGED bus
              /\ in_status' = 1
              /\ res' = "SD_OK"
              /\ probe' = Touched(probe)
              /\ UNCHANGED <<n, k, cmd, ct, ocr, init_trys, dev, freq>>
      [] in_states = "S13" ->
           \* the timer status, then CMD59 and CMD16
           \E running \in SPI_Timer_Status(timer),
              r59 \in Send_Cmd_Results("CMD59"),
              r16 \in Send_Cmd_Results("CMD16") :
              /\ ct' = IF (~running) \/ (r59 # 0) \/ (r16 # 0) THEN {} ELSE ct
              /\ timer' = "stopped"
              /\ bus' = "selected"
              /\ in_states' = "S1"
              /\ in_status' = 1
              /\ res' = "SD_OK"
              /\ probe' = Touched(probe)
              /\ UNCHANGED <<n, k, cmd, ocr, init_trys, dev, freq>>
      [] in_states = "S14" ->
           \/ /\ IF ct # {}
                 THEN \* __SD_Sectors(dev): CMD9 and the CSD register
                      \E r \in Send_Cmd_Results("CMD9") :
                         /\ dev' = [dev EXCEPT
                                      ![d].cardtype = ct,
                                      ![d].mount = TRUE,
                                      ![d].last_sector =
                                          DwPred(SD_Sectors(r, card_csd, ct)),
                                      ![d].read = 0,
                                      ![d].write = 0]
                         /\ freq' = "high"
                         /\ timer' = "stopped"
                         /\ probe' = [Touched(probe) EXCEPT
                                        !.csd_ok = (r = 0)]
                 ELSE /\ probe' = Touched(probe)
                      /\ UNCHANGED <<dev, freq, timer>>
              \* SPI_Release()
              /\ bus' = "released"
              /\ in_states' = "S1"
              /\ in_status' = 0
              /\ res' = IF ct # {} THEN "SD_OK" ELSE "SD_NOINIT"
              /\ UNCHANGED <<n, k, cmd, ct, ocr, init_trys>>
           \/ \* __SD_Sectors(dev): the card accepts CMD9 and then sends 0xFF
              \* for ever; while (SPI_RW(0xFF) == 0xFF); never ends
              /\ ct # {}
              /\ 0 \in Send_Cmd_Results("CMD9")
              /\ FALSE \in CsdTokenArrives
              /\ dev' = [dev EXCEPT ![d].cardtype = ct, ![d].mount = TRUE]
              /\ timer' = "stopped"
              /\ bus' = "selected"
              /\ probe' = Touched(probe)
              /\ UNCHANGED <<n, k, cmd, ct, ocr, init_trys, in_states,
                             in_status, res, freq>>
  \* The call has not returned if control is still in case S14.
  /\ blocked' = (in_states = "S14" /\ in_states' = "S14")

(***************************************************************************)
(* The countdown of the timer reaches zero.                                *)
(***************************************************************************)
TimerExpires ==
    /\ UNCHANGED <<envVars, logVars>>
    /\ timer = "running"
    /\ timer' = "expired"
    /\ UNCHANGED <<devVars, readVars, writeVars, initVars, serverVars, res, bus,
                   freq, cardVars, probe, callerVars>>

(***************************************************************************)
(* Initial state: the statics and globals as the C start-up code leaves    *)
(* them (zeroed, or with their initializers).                              *)
(***************************************************************************)
\* A call of the test thread: the function and its arguments, and what the
\* buffer and the counters were when the call was made.
NoCall ==
    [fn |-> "none", dat |-> 0, sector |-> 0, ofs |-> 0, cnt |-> 0,
     before |-> ErasedBuffer, reads |-> 0, writes |-> 0]

NoTrans ==
    [Request |-> 0, Device |-> 0, Data |-> 0, Sector |-> 0,
     Status |-> "STAT_IDLE", ErrorCode |-> "SD_OK"]
\* pc: "idle", "waiting" (a request is submitted) or "done" (it has read
\* the error code); got: the code it read; answer: the code the dispatcher
\* wrote for the request ("none": not yet); second: the request code
\* written while busy (0: none); accepts: acceptances since the request;
\* submitted: requests so far.
NoRequester ==
    [pc |-> "idle", got |-> "none", answer |-> "none", second |-> 0,
     accepts |-> 0, submitted |-> 0]

\* Zero-initialised statics and objects, before any call.
InitStatics ==
    /\ mem = [b \in BufIds |-> ErasedBuffer]
    /\ oob = FALSE
    /\ r_res = "SD_ERROR" /\ tkn = 0 /\ data = 0 /\ byte_num = 0
    /\ pointer = NullPointer /\ rn_state = "S1" /\ read_status = 0
    /\ idx = 0 /\ line = 0 /\ n_state = "S1" /\ idle_busy_status = 0
    /\ n = 0 /\ k = 0 /\ ocr = <<0, 0, 0, 0>>
    /\ init_trys = 0 /\ in_states = "S1" /\ in_status = 0
    /\ blocked = FALSE
    /\ g_trans = NoTrans
    /\ cur_trans = NoTrans
    /\ next_state = "S_IDLE"
    /\ res = "SD_OK"
    /\ timer = "stopped" /\ bus = "released"
    /\ card_blocks = [s \in Sectors |-> CardPattern(s)]
    /\ card_cur = 0 /\ card_pos = 0 /\ card_rx = <<>>
    /\ probe = NoProbe
    /\ rx_log = <<>>
    /\ pc = "idle"
    /\ call = NoCall
    /\ prev = [sector |-> -1, bytes |-> ErasedBuffer]
    /\ ncalls = 0
    /\ requester = NoRequester
    /\ accepted = NoTrans

NoDevice ==
    [cardtype |-> {}, mount |-> FALSE, last_sector |-> DW(0), read |-> 0,
     write |-> 0]

Unmounted ==
    /\ InitStatics
    /\ dev = [d \in DevIds |-> NoDevice]
    /\ cmd = "CMD0" /\ ct = {}
    /\ freq = "low"

Init ==
    /\ Unmounted
    /\ card_kind = "any"
    /\ timer_kind = "any"
    /\ card_csd = ZeroCsd

\* The state SD_Init leaves when it has mounted an MMC card of four sectors
\* on device 0: what the test thread requires before it reads or writes
\* (part_000, lines 73-77).
MountedMMC ==
    /\ InitStatics
    /\ dev = [d \in DevIds |->
                IF d = 0
                THEN [cardtype |-> {"MMC"}, mount |-> TRUE,
                      last_sector |->
                          DwPred(SD_Sectors(0, ZeroCsd, {"MMC"})),
                      read |-> 0, write |-> 0]
                ELSE NoDevice]
    /\ cmd = "CMD1" /\ ct = {"MMC"}
    /\ freq = "high"

InitMounted ==
    /\ MountedMMC
    /\ card_kind = "any"
    /\ timer_kind = "any"
    /\ card_csd = ZeroCsd

(***************************************************************************)
(* The test thread (part_000, Thread_Test_SD), calling the stepped         *)
(* functions: it fills the buffer, calls SD_Read or SD_Write and calls it  *)
(* again while the function's status flag says it has not finished.        *)
(***************************************************************************)
\* The windows (ofs, cnt) the test thread reads.
Windows ==
    {<<0, SD_BLK_SIZE>>, <<10, 5>>, <<SD_BLK_SIZE - 1, 1>>, <<0, 0>>,
     <<SD_BLK_SIZE - 2, 4>>}

\* What the next call remembers of the call before it: the sector and the
\* bytes of a write that reported SD_OK (sector -1: it was no such write).
NoWrite == [sector |-> -1, bytes |-> ErasedBuffer]
Returned ==
    IF pc # "returned" THEN prev
    ELSE IF call.fn = "write" /\ res = "SD_OK"
         THEN [sector |-> call.sector, bytes |-> call.before]
         ELSE NoWrite

LoadBuffer ==
    /\ UNCHANGED <<envVars, logVars>>
    /\ pc \in {"idle", "returned"}
    /\ ncalls < MaxCalls
    /\ \E b \in {ErasedBuffer, SampleBuffer, RampBuffer} :
          /\ mem[0] # b
          /\ mem' = [mem EXCEPT ![0] = b]
    /\ pc' = "idle"
    /\ prev' = Returned
    /\ UNCHANGED <<dev, oob, readVars, writeVars, initVars, serverVars, res,
                   spiVars, cardVars, probe, call, ncalls, requester,
                   accepted>>

CallRead ==
    /\ UNCHANGED <<envVars, logVars>>
    /\ pc \in {"idle", "returned"}
    /\ ncalls < MaxCalls
    /\ \E s \in Sectors, w \in Windows :
          call' = [fn |-> "read", dat |-> 0, sector |-> s, ofs |-> w[1],
                   cnt |-> w[2], before |-> mem[0], reads |-> dev[0].read,
                   writes |-> dev[0].write]
    /\ pc' = "calling"
    /\ prev' = Returned
    /\ ncalls' = ncalls + 1
    /\ probe' = NoProbe
    /\ UNCHANGED <<devVars, readVars, writeVars, initVars, serverVars, res,
                   spiVars, cardVars, requester, accepted>>

CallWrite ==
    /\ UNCHANGED <<envVars, logVars>>
    /\ pc \in {"idle", "returned"}
    /\ ncalls < MaxCalls
    /\ \E s \in Sectors :
          call' = [fn |-> "write", dat |-> 0, sector |-> s, ofs |-> 0,
                   cnt |-> 0, before |-> mem[0], reads |-> dev[0].read,
                   writes |-> dev[0].write]
    /\ pc' = "calling"
    /\ prev' = Returned
    /\ ncalls' = ncalls + 1
    /\ probe' = NoProbe
    /\ UNCHANGED <<devVars, readVars, writeVars, initVars, serverVars, res,
                   spiVars, cardVars, requester, accepted>>

StepRead ==
    /\ UNCHANGED <<envVars, logVars>>
    /\ pc = "calling"
    /\ call.fn = "read"
    /\ SD_Read(0, call.dat, call.sector, call.ofs, call.cnt)
    /\ pc' = IF read_status' = 1 THEN "calling" ELSE "returned"
    /\ UNCHANGED <<freq, writeVars, initVars, serverVars, call, prev, ncalls,
                   requester, accepted>>

StepWrite ==
    /\ UNCHANGED <<envVars, logVars>>
    /\ pc = "calling"
    /\ call.fn = "write"
    /\ SD_Write(0, call.dat, call.sector)
    /\ pc' = IF idle_busy_status' = 1 THEN "calling" ELSE "returned"
    /\ UNCHANGED <<freq, mem, oob, readVars, initVars, serverVars, call, prev,
                   ncalls, requester, accepted>>

NextDriver ==
    \/ LoadBuffer
    \/ CallRead
    \/ CallWrite
    \/ StepRead
    \/ StepWrite
    \/ TimerExpires

SpecDriver == InitMounted /\ [][NextDriver]_vars

(***************************************************************************)
(* SD_Read of Project_2B (Project_2B/Source/sd_io.c, lines 320-367): the   *)
(* blocking function, one call from beginning to end.  The card answers    *)
(* CMD17 with 0 (accepted) or not, then sends idle bytes 0xFF followed by  *)
(* the token tok, then, after a data-start token, the data packet of the   *)
(* sector.                                                                 *)
(***************************************************************************)
\* do { tkn = SPI_RW(0xFF); } while (tkn == 0xFF) (lines 338-342): the bytes
\* received.
TokenWait_2B(idle, tok) ==
    [i \in 1..(idle + 1) |-> IF i <= idle THEN 255 ELSE tok]
\* The do-while loop of lines 351-358 from byte_num = b on; st holds the
\* buffers, the offset of dat into its buffer, whether a store went beyond
\* the buffer, and the bytes received.
RECURSIVE DataLoop_2B(_, _, _, _, _, _, _)
DataLoop_2B(b, st, dat, sector, ofs, cnt, blocks) ==
    LET v == CardDataByte(blocks, sector, b)
        p == [buf |-> dat, off |-> st.off]
        stored == (b >= ofs) /\ (b < ofs + cnt)
        next == [mem |-> IF stored THEN StoreByte(st.mem, p, v) ELSE st.mem,
                 off |-> IF stored THEN st.off + 1 ELSE st.off,
                 oob |-> st.oob \/ (stored /\ StoreOverruns(p)),
                 rx |-> Append(st.rx, v)]
    IN  IF b + 1 < SD_BLK_SIZE + 2
        THEN DataLoop_2B(b + 1, next, dat, sector, ofs, cnt, blocks)
        ELSE next
\* What one call leaves: the result, the buffers, the offset dat has
\* reached, the count added to debug.read, whether the bus was released,
\* and the bytes received after the command.
SD_Read_2B(last, m, dat, sector, ofs, cnt, accepts, idle, tok, blocks) ==
    LET start == [mem |-> m, off |-> 0, oob |-> FALSE, rx |-> <<>>] IN
    IF DwLess(last, DW(sector)) \/ cnt = 0
    THEN [res |-> "SD_PARERR", mem |-> m, off |-> 0, oob |-> FALSE,
          reads |-> 0, released |-> FALSE, rx |-> <<>>]
    ELSE IF accepts
    THEN IF tok = 254
         THEN LET end == DataLoop_2B(0, [start EXCEPT
                                           !.rx = TokenWait_2B(idle, tok)],
                                     dat, sector, ofs, cnt, blocks)
              IN  [res |-> "SD_OK", mem |-> end.mem, off |-> end.off,
                   oob |-> end.oob, reads |-> 1, released |-> TRUE,
                   rx |-> end.rx]
         ELSE [res |-> "SD_ERROR", mem |-> m, off |-> 0, oob |-> FALSE,
               reads |-> 1, released |-> TRUE,
               rx |-> TokenWait_2B(idle, tok)]
    ELSE [res |-> "SD_ERROR", mem |-> m, off |-> 0, oob |-> FALSE,
          reads |-> 1, released |-> TRUE, rx |-> <<>>]

(***************************************************************************)
(* The test thread reading with the stepped SD_Read, the bytes the         *)
(* transport receives after the command written to rx_log.  The card sends *)
(* at most MaxIdle idle bytes before its token.                            *)
(***************************************************************************)
CallReadLogged ==
    /\ UNCHANGED envVars
    /\ pc \in {"idle", "returned"}
    /\ ncalls < MaxCalls
    /\ \E s \in Sectors, w \in Windows :
          call' = [fn |-> "read", dat |-> 0, sector |-> s, ofs |-> w[1],
                   cnt |-> w[2], before |-> mem[0], reads |-> dev[0].read,
                   writes |-> dev[0].write]
    /\ pc' = "calling"
    /\ prev' = Returned
    /\ ncalls' = ncalls + 1
    /\ probe' = NoProbe
    /\ rx_log' = <<>>
    /\ UNCHANGED <<devVars, readVars, writeVars, initVars, serverVars, res,
                   spiVars, cardVars, requester, accepted>>

StepReadLogged ==
    /\ UNCHANGED envVars
    /\ pc = "calling"
    /\ call.fn = "read"
    /\ SD_Read(0, call.dat, call.sector, call.ofs, call.cnt)
    /\ pc' = IF read_status' = 1 THEN "calling" ELSE "returned"
    /\ rx_log' =
          CASE rn_state \in {"S2", "S3"} /\ rn_state' = "S3" ->
                 \* tkn = SPI_RW(0xFF)
                 Append(rx_log, tkn')
            [] rn_state \in {"S4", "S5"} /\ rn_state' = "S5" ->
                 \* data = SPI_RW(0xff)
                 Append(rx_log, data')
            [] OTHER -> rx_log
    /\ (rn_state \in {"S2", "S3"} /\ rn_state' = "S3" /\ tkn' = 255)
          => Len(rx_log) < MaxIdle
    /\ UNCHANGED <<freq, writeVars, initVars, serverVars, call, prev, ncalls,
                   requester, accepted>>

NextRefine ==
    \/ LoadBuffer
    \/ CallReadLogged
    \/ StepReadLogged
    \/ TimerExpires

SpecRefine == InitMounted /\ [][NextRefine]_vars

(***************************************************************************)
(* The dispatcher (README.md, lines 65-162).                               *)
(***************************************************************************)
REQ_NONE == 0
REQ_INIT == 1
REQ_READ == 2
REQ_WRITE == 3

\* Req_to_State[] (README.md, line 69).
Req_to_State_Swapped(r) ==
    CASE r = 0 -> "S_IDLE" [] r = 1 -> "S_INIT" [] r = 2 -> "S_WRITE"
      [] OTHER -> "S_READ"
Req_to_State(r) ==
    CASE r = 0 -> "S_IDLE" [] r = 1 -> "S_INIT" [] r = 2 -> "S_READ"
      [] OTHER -> "S_WRITE"

\* Update_Trans (README.md, lines 71-75).
Update_Trans_KeepsStatus(t, result) ==
    [t EXCEPT !.ErrorCode = result, !.Request = REQ_NONE]
Update_Trans(t, result) ==
    [t EXCEPT !.ErrorCode = result, !.Status = "STAT_IDLE",
              !.Request = REQ_NONE]

\* case S_IDLE: the only state in which g_trans is read (README.md, line 84).
ReadsRequest_AlsoWhileReading(state) == state \in {"S_IDLE", "S_READ"}
ReadsRequest(state) == state = "S_IDLE"

\* The descriptor whose Device, Data and Sector are handed to the driver
\* (README.md, lines 101, 119, 138).
TransArgs_Shared == g_trans
TransArgs == cur_trans

\* if (cur_trans.Request <= REQ_WRITE) (README.md, line 87).
RequestInRange_Unchecked(r) == TRUE
RequestInRange(r) == r <= REQ_WRITE

\* The state after a step of a driver function: the same state while the
\* function is mid-operation, S_IDLE once it is done (README.md, lines
\* 102-109, 121-128, 140-147).
StateAfterStep_ErrorWhenDone(status, state) ==
    IF status = 1 THEN state ELSE "S_ERROR"
StateAfterStep(status, state) ==
    IF status = 1 THEN state ELSE "S_IDLE"

\* What the dispatcher's completing or rejecting step tells the requester.
Answered(code) ==
    [requester EXCEPT !.answer = IF @ = "none" THEN code ELSE @]

Task_SD_Server ==
    /\ UNCHANGED <<envVars, logVars>>
    /\ ~blocked
    /\ UNCHANGED <<pc, call, prev, ncalls>>
    /\ IF ReadsRequest(next_state)
       THEN IF g_trans.Request # REQ_NONE
            THEN /\ cur_trans' = g_trans
                 /\ accepted' = g_trans
                 /\ IF RequestInRange(cur_trans'.Request)
                    THEN /\ next_state' = Req_to_State(cur_trans'.Request)
                         /\ g_trans' = [g_trans EXCEPT !.Status = "STAT_BUSY"]
                         /\ requester' =
                               [requester EXCEPT !.accepts = @ + 1]
                         /\ probe' = NoProbe
                    ELSE /\ g_trans' = [g_trans EXCEPT
                                          !.Status = "STAT_IDLE",
                                          !.Request = REQ_NONE,
                                          !.ErrorCode = "SD_PARERR"]
                         /\ next_state' = "S_IDLE"
                         /\ requester' = Answered("SD_PARERR")
                         /\ UNCHANGED probe
                 /\ UNCHANGED <<devVars, readVars, writeVars, initVars, res,
                                spiVars, cardVars>>
            ELSE UNCHANGED vars
       ELSE CASE next_state = "S_INIT" ->
                   /\ SD_Init(TransArgs.Device)
                   /\ next_state' = StateAfterStep(in_status', "S_INIT")
                   /\ IF next_state' = "S_IDLE"
                      THEN /\ g_trans' = Update_Trans(g_trans, res')
                           /\ requester' = Answered(res')
                      ELSE UNCHANGED <<g_trans, requester>>
                   /\ UNCHANGED <<mem, oob, readVars, writeVars, cardVars,
                                  cur_trans, accepted>>
              [] next_state = "S_READ" ->
                   /\ SD_Read(TransArgs.Device, TransArgs.Data,
                              TransArgs.Sector, 0, SD_BLK_SIZE)
                   /\ next_state' = StateAfterStep(read_status', "S_READ")
                   /\ IF next_state' = "S_IDLE"
                      THEN /\ g_trans' = Update_Trans(g_trans, res')
                           /\ requester' = Answered(res')
                      ELSE UNCHANGED <<g_trans, requester>>
                   /\ UNCHANGED <<freq, writeVars, initVars, cur_trans,
                                  accepted>>
              [] next_state = "S_WRITE" ->
                   /\ SD_Write(TransArgs.Device, TransArgs.Data,
                               TransArgs.Sector)
                   /\ next_state' = StateAfterStep(idle_busy_status', "S_WRITE")
                   /\ IF next_state' = "S_IDLE"
                      THEN /\ g_trans' = Update_Trans(g_trans, res')
                           /\ requester' = Answered(res')
                      ELSE UNCHANGED <<g_trans, requester>>
                   /\ UNCHANGED <<freq, mem, oob, readVars, initVars,
                                  cur_trans, accepted>>
              [] OTHER ->
                   \* case S_ERROR: while (1);
                   UNCHANGED vars

(***************************************************************************)
(* The requester of the dispatcher, following the protocol of the          *)
(* specification: it fills the descriptor and sets the request code while  *)
(* the descriptor is idle, then polls the status and reads the error code  *)
(* when it sees idle.  It may also write the descriptor while the          *)
(* dispatcher is busy.                                                     *)
(***************************************************************************)
\* Request codes a requester writes: the three operations and a code that
\* is none of them.
RequestCodes == {REQ_INIT, REQ_READ, REQ_WRITE, REQ_WRITE + 1}

Submit ==
    /\ UNCHANGED <<envVars, logVars>>
    /\ requester.pc \in {"idle", "done"}
    /\ requester.submitted < MaxRequests
    /\ g_trans.Status = "STAT_IDLE"
    /\ g_trans.Request = REQ_NONE
    /\ \E r \in RequestCodes :
       \E s \in IF r \in {REQ_READ, REQ_WRITE} THEN Sectors ELSE {0} :
          /\ g_trans' = [g_trans EXCEPT !.Request = r, !.Device = 0,
                                        !.Data = 0, !.Sector = s]
          /\ mem' = [mem EXCEPT ![0] = IF r = REQ_WRITE THEN SampleBuffer
                                       ELSE ErasedBuffer]
    /\ requester' = [pc |-> "waiting", got |-> "none", answer |-> "none",
                     second |-> 0, accepts |-> 0,
                     submitted |-> requester.submitted + 1]
    /\ probe' = NoProbe
    /\ UNCHANGED <<dev, oob, readVars, writeVars, initVars, cur_trans,
                   next_state, res, spiVars, cardVars, pc, call, prev,
                   ncalls, accepted>>

\* The requester looks at the status and, seeing idle, reads the error code.
Poll ==
    /\ UNCHANGED <<envVars, logVars>>
    /\ requester.pc = "waiting"
    /\ g_trans.Status = "STAT_IDLE"
    /\ requester' = [requester EXCEPT !.pc = "done",
                                      !.got = g_trans.ErrorCode]
    /\ UNCHANGED <<devVars, readVars, writeVars, initVars, serverVars, res,
                   spiVars, cardVars, probe, pc, call, prev, ncalls,
                   accepted>>

\* Sector, data pointer and device are overwritten while the dispatcher
\* works on the request.
OverwriteParams ==
    /\ UNCHANGED <<envVars, logVars>>
    /\ g_trans.Status = "STAT_BUSY"
    /\ g_trans.Device = accepted.Device
    /\ g_trans.Data = accepted.Data
    /\ g_trans' = [g_trans EXCEPT !.Device = 1, !.Data = 1,
                                  !.Sector = IF @ = 0 THEN 4 ELSE 0]
    /\ UNCHANGED <<devVars, readVars, writeVars, initVars, cur_trans,
                   next_state, res, spiVars, cardVars, probe, callerVars>>

\* A second request code is written while the dispatcher is busy.
SecondRequest ==
    /\ UNCHANGED <<envVars, logVars>>
    /\ g_trans.Status = "STAT_BUSY"
    /\ requester.second = 0
    /\ \E r \in {REQ_READ, REQ_WRITE} \ {g_trans.Request} :
          /\ g_trans' = [g_trans EXCEPT !.Request = r]
          /\ requester' = [requester EXCEPT !.second = r]
    /\ UNCHANGED <<devVars, readVars, writeVars, initVars, cur_trans,
                   next_state, res, spiVars, cardVars, probe, pc, call, prev,
                   ncalls, accepted>>

Next ==
    \/ Task_SD_Server
    \/ Submit
    \/ Poll
    \/ OverwriteParams
    \/ SecondRequest
    \/ TimerExpires

Spec == Init /\ [][Next]_vars

\* The dispatcher and its requester from the state a successful negotiation
\* leaves.
SpecMounted == InitMounted /\ [][Next]_vars

(***************************************************************************)
(* The dispatcher serving reads and writes of a mounted card, invoked      *)
(* again and again by its thread, with a countdown timer that expires.    *)
(***************************************************************************)
InitLive ==
    /\ MountedMMC
    /\ card_kind \in {"any", "stalled"}
    /\ timer_kind = "any"
    /\ card_csd = ZeroCsd

\* The requester asks for a read or a write.
SubmitIO ==
    /\ Submit
    /\ g_trans'.Request \in {REQ_READ, REQ_WRITE}

NextLive ==
    \/ Task_SD_Server
    \/ SubmitIO
    \/ Poll
    \/ OverwriteParams
    \/ SecondRequest
    \/ TimerExpires

SpecLive ==
    /\ InitLive
    /\ [][NextLive]_vars
    /\ WF_vars(Task_SD_Server)
    /\ WF_vars(TimerExpires)

(***************************************************************************)
(* Properties of SD_Read and SD_Write, checked under SpecDriver.           *)
(***************************************************************************)
\* The call of the test thread has returned and nothing was done since.
ReadReturned == pc = "returned" /\ call.fn = "read"
WriteReturned == pc = "returned" /\ call.fn = "write"

\* C1: whatever was called before, a write with sector > last_sector
\* reports SD_PARERR and makes no transport call.
C1_WriteOutOfRange ==
    (WriteReturned /\ DwLess(dev[0].last_sector, DW(call.sector)))
        => (res = "SD_PARERR" /\ ~probe.any)

\* C7: against a card that keeps what is written and refuses nothing, a
\* write that reported SD_OK followed by a read (0, SD_BLK_SIZE) of the same
\* sector reports SD_OK and leaves the written bytes in the buffer.
C7_RoundTrip ==
    (/\ ReadReturned
     /\ call.ofs = 0 /\ call.cnt = SD_BLK_SIZE
     /\ prev.sector = call.sector
     /\ ~probe.refused)
        => (res = "SD_OK" /\ mem[call.dat] = prev.bytes)

\* C8: a read with cnt > 0 and ofs + cnt <= SD_BLK_SIZE that reports SD_OK
\* leaves bytes [ofs, ofs+cnt) of the card's block, in order, in the first
\* cnt bytes of the destination and changes no other byte of memory.
C8_ReadWindow ==
    (/\ ReadReturned
     /\ res = "SD_OK"
     /\ call.cnt > 0 /\ call.ofs + call.cnt <= SD_BLK_SIZE)
        => /\ \A i \in 0..(BufLen - 1) :
                mem[call.dat][i] =
                    IF i < call.cnt
                    THEN card_blocks[call.sector][call.ofs + i]
                    ELSE call.before[i]
           /\ \A b \in BufIds \ {call.dat} : mem[b] = ErasedBuffer
           /\ ~oob
\* A read of bytes 10..14 into a buffer that held other data has returned
\* SD_OK.
C8_Witness ==
    /\ ReadReturned /\ res = "SD_OK"
    /\ call.ofs = 10 /\ call.cnt = 5
    /\ call.before = RampBuffer

\* C9: whatever was called before, a read with sector > last_sector or with
\* cnt = 0 reports SD_PARERR, makes no transport call and changes neither
\* the destination buffer nor the read counter.
C9_ReadParamError ==
    (/\ ReadReturned
     /\ (DwLess(dev[0].last_sector, DW(call.sector)) \/ call.cnt = 0))
        => /\ res = "SD_PARERR"
           /\ ~probe.any
           /\ mem[call.dat] = call.before
           /\ dev[0].read = call.reads
\* A read of no bytes has returned after a write whose command the card
\* refused and a read that failed.
C9_Witness ==
    /\ ReadReturned /\ call.cnt = 0 /\ call.sector = 0
    /\ n_state = "S2" /\ dev[0].read = 1

\* C10: once the data-response token of a write was read with low five bits
\* other than 00101, the write has returned SD_REJECT, no byte of the busy
\* line was read and the busy timer was not started for that write.
C10_WriteReject ==
    (call.fn = "write" /\ probe.resp # -1 /\ (probe.resp % 32) # 5)
        => /\ pc # "calling"
           /\ res = "SD_REJECT"
           /\ n_state = "S1"
           /\ ~probe.busy_rw
           /\ ~probe.busy_timer
\* A write has sent its whole block and the card answered with a CRC error.
C10_Witness ==
    /\ WriteReturned /\ probe.resp = 235
    /\ Len(card_rx) = SD_BLK_SIZE /\ idx = SD_BLK_SIZE

(***************************************************************************)
(* Claims about the dispatcher and its requester, checked under Spec.      *)
(***************************************************************************)

\* C2: a requester that submitted a request while the status was idle and
\* then polls the status reads, at the first moment it sees idle again, the
\* result code of the request it submitted in the error code.
C2_ReadsOwnResult ==
    (requester.pc = "done")
        => (requester.answer # "none" /\ requester.got = requester.answer)

\* The operation state that belongs to a request code.
MatchingState(r) ==
    CASE r = REQ_INIT -> "S_INIT" [] r = REQ_READ -> "S_READ"
      [] r = REQ_WRITE -> "S_WRITE"
C3_Step ==
    /\ (next_state = "S_IDLE" /\ next_state' # "S_IDLE")
          => (/\ g_trans.Request \in {REQ_INIT, REQ_READ, REQ_WRITE}
              /\ next_state' = MatchingState(g_trans.Request)
              /\ g_trans'.Status = "STAT_BUSY")
    /\ (next_state # "S_IDLE") => (next_state' \in {next_state, "S_IDLE"})
    /\ (next_state # "S_IDLE" /\ next_state' = "S_IDLE")
          => (/\ g_trans'.Status = "STAT_IDLE"
              /\ g_trans'.Request = REQ_NONE
              /\ g_trans'.ErrorCode = res'
              /\ requester.accepts = 1)
C4_NoSilentDiscard ==
    [][(requester.second # 0 /\ next_state # "S_IDLE"
            /\ next_state' = "S_IDLE")
          => (\/ g_trans'.Request = requester.second
              \/ g_trans'.ErrorCode # res')]_vars

\* C5: at most one operation is in progress at any time, and the dispatcher
\* takes a new request only while it is Idle: of the three driver functions
\* only the one of the dispatcher's state can be mid-operation.
C5_OneInProgress ==
    /\ [](/\ in_status + read_status + idle_busy_status <= 1
          /\ in_status = 1 => next_state = "S_INIT"
          /\ read_status = 1 => next_state = "S_READ"
          /\ idle_busy_status = 1 => next_state = "S_WRITE")
    /\ [][(accepted' # accepted \/ cur_trans' # cur_trans)
              => next_state = "S_IDLE"]_vars
C5_Witness ==
    /\ next_state = "S_READ"
    /\ read_status = 1
    /\ probe.any
    /\ requester.second = REQ_WRITE
    /\ g_trans.Request = REQ_WRITE

\* C24: a step taken while the dispatcher is Idle and the descriptor holds a
\* request code above REQ_WRITE that changes the descriptor is the
\* dispatcher's answer: it leaves the error code SD_PARERR, the status idle,
\* the request none and the dispatcher Idle, and touches neither the device,
\* the statics of the three state machines, the transport nor the card.
C24_OutOfRangeRejected ==
    [][(/\ next_state = "S_IDLE"
        /\ g_trans.Request > REQ_WRITE
        /\ g_trans' # g_trans)
          => /\ g_trans' = [g_trans EXCEPT !.ErrorCode = "SD_PARERR",
                                           !.Status = "STAT_IDLE",
                                           !.Request = REQ_NONE]
             /\ next_state' = "S_IDLE"
             /\ cur_trans' = g_trans
             /\ UNCHANGED <<devVars, readVars, writeVars, initVars, res,
                            spiVars, cardVars, probe>>]_vars
\* The requester's first request carried a code that is no operation and
\* was answered without a transport call.
C24_Witness ==
    /\ next_state = "S_IDLE"
    /\ accepted.Request = REQ_WRITE + 1
    /\ requester.answer = "SD_PARERR"
    /\ requester.accepts = 0
    /\ g_trans.ErrorCode = "SD_PARERR"
    /\ g_trans.Status = "STAT_IDLE"
    /\ g_trans.Request = REQ_NONE
    /\ ~probe.any
    /\ in_states = "S1" /\ rn_state = "S1" /\ n_state = "S1"

\* C25: whatever the requests, a code that is no operation among them, and
\* whatever the card answers, the dispatcher is in one of the states Idle,
\* Negotiating, Reading and Writing, never in its Error state.
C25_NeverError == next_state \in {"S_IDLE", "S_INIT", "S_READ", "S_WRITE"}
\* The dispatcher is Idle after a read that failed and a request whose code
\* is no operation.
C25_Witness ==
    /\ next_state = "S_IDLE"
    /\ requester.submitted = 2
    /\ accepted.Request = REQ_WRITE + 1
    /\ requester.answer = "SD_PARERR"
    /\ res = "SD_ERROR"
    /\ dev[0].read = 1

\* C30: with a requester that never writes the status, in every state
\* between dispatcher steps the status is busy exactly when the dispatcher
\* is Negotiating, Reading or Writing and idle exactly when it is Idle.
C30_StatusTracksState ==
    /\ (g_trans.Status = "STAT_BUSY")
          <=> (next_state \in {"S_INIT", "S_READ", "S_WRITE"})
    /\ (g_trans.Status = "STAT_IDLE") <=> (next_state = "S_IDLE")
\* The second request, a write, is being served after a first one that was
\* rejected, and the requester has written other fields of the descriptor.
C30_Witness ==
    /\ requester.submitted = 2
    /\ next_state = "S_WRITE"
    /\ g_trans.Status = "STAT_BUSY"
    /\ g_trans.ErrorCode = "SD_PARERR"
    /\ g_trans.Device = 1
    /\ n_state = "S3"

\* C31: whenever the dispatcher is Idle, the read state machine and the
\* write state machine are in their first state, the one that checks the
\* arguments, whatever the transaction before reported.
C31_IdleMachinesAtStart ==
    (next_state = "S_IDLE") => (rn_state = "S1" /\ n_state = "S1")

\* Sequence a is a prefix of the bytes of buffer b.
IsPrefixOf(a, b) ==
    /\ Len(a) <= BufLen
    /\ \A i \in 1..Len(a) : a[i] = b[i - 1]
\* C6: the operation uses the sector, the buffer and the device the
\* descriptor held when it was accepted, whatever is written to those fields
\* afterwards: the command carries the accepted sector, a write sends the
\* accepted buffer, and the buffer and the device the fields were changed to
\* stay untouched.
C6_UsesAcceptedValues ==
    /\ (next_state \in {"S_READ", "S_WRITE"} /\ probe.arg # -1)
          => probe.arg = accepted.Sector
    /\ (next_state = "S_WRITE" /\ n_state = "S3")
          => IsPrefixOf(card_rx, mem[accepted.Data])
    /\ (next_state = "S_READ" /\ rn_state \in {"S2", "S3", "S4", "S5", "S6"})
          => pointer.buf = accepted.Data
    /\ \A b \in BufIds \ {0} : mem[b] = ErasedBuffer
    /\ \A d \in DevIds \ {0} : dev[d] = NoDevice
C6_Witness ==
    /\ next_state = "S_IDLE"
    /\ res = "SD_OK"
    /\ accepted.Request = REQ_WRITE
    /\ accepted.Sector = 0
    /\ g_trans.Sector = 4
    /\ g_trans.Data = 1
    /\ g_trans.Device = 1
    /\ card_blocks[0] = SampleBuffer
    /\ dev[0].write = 1

(***************************************************************************)
(* Claims about the busy wait of a write, checked under SpecDriver.        *)
(***************************************************************************)

\* C11: a write whose data the card accepted and whose busy line never read
\* anything but 0 reports Busy, and a write reports Busy only when its busy
\* wait ended on a call that found the write timer expired, never while the
\* timer was still running.
C11_BusyOnlyAfterTimeout ==
    /\ (WriteReturned /\ probe.busy_timer /\ ~probe.cleared)
          => res = "SD_BUSY"
    /\ (WriteReturned /\ res = "SD_BUSY")
          => (probe.busy_timer /\ probe.expired /\ timer # "running")
    /\ (call.fn = "write" /\ n_state = "S6" /\ line = 0) => probe.expired
C11_Witness ==
    /\ WriteReturned
    /\ res = "SD_BUSY"
    /\ probe.resp = 229
    /\ probe.busy_rw
    /\ ~probe.cleared
    /\ dev[0].write = call.writes + 1

(***************************************************************************)
(* A caller of SD_Init that follows the contract of the stepped function:  *)
(* it calls again until in_status is 0, one negotiation after another,     *)
(* with one card and one transport for the whole run.                      *)
(***************************************************************************)
InitNegotiation ==
    /\ Unmounted
    /\ card_kind \in {"any", "v1", "v2", "deaf"}
    /\ timer_kind \in {"any", "flag", "strict"}
    /\ card_csd = ZeroCsd

CallInit ==
    /\ UNCHANGED <<envVars, logVars>>
    /\ pc \in {"idle", "returned"}
    /\ ncalls < MaxCalls
    /\ call' = [NoCall EXCEPT !.fn = "init"]
    /\ pc' = "calling"
    /\ ncalls' = ncalls + 1
    /\ probe' = NoProbe
    /\ UNCHANGED <<devVars, readVars, writeVars, initVars, serverVars, res,
                   spiVars, cardVars, prev, requester, accepted>>

StepInit ==
    /\ UNCHANGED <<envVars, logVars>>
    /\ pc = "calling"
    /\ call.fn = "init"
    /\ ~blocked
    /\ SD_Init(0)
    /\ pc' = IF in_status' = 1 THEN "calling" ELSE "returned"
    /\ UNCHANGED <<mem, oob, readVars, writeVars, serverVars, cardVars, call,
                   prev, ncalls, requester, accepted>>

NextInit ==
    \/ CallInit
    \/ StepInit
    \/ TimerExpires

SpecInit ==
    /\ InitNegotiation
    /\ [][NextInit]_vars
    /\ WF_vars(StepInit)
    /\ WF_vars(TimerExpires)

(***************************************************************************)
(* Negotiations against version-1 and version-2 cards that hold one of the *)
(* registers of CsdSet, with a timer query that answers TRUE for a stopped *)
(* timer.                                                                  *)
(***************************************************************************)
InitCapacity ==
    /\ Unmounted
    /\ card_kind \in {"v1", "v2"}
    /\ timer_kind = "flag"
    /\ card_csd \in CsdSet

SpecCapacity == InitCapacity /\ [][NextInit]_vars

(***************************************************************************)
(* Progress of reads and writes, checked under SpecLive.                   *)
(***************************************************************************)
\* C12: when the dispatcher is invoked again and again and a started timer
\* expires, every accepted read or write completes: the dispatcher is idle
\* again, the status is idle, the request is none and the error code is the
\* result of the operation, whatever the card answers.
C12_Completes ==
    (next_state \in {"S_READ", "S_WRITE"})
       ~> (/\ next_state = "S_IDLE"
           /\ g_trans.Status = "STAT_IDLE"
           /\ g_trans.Request = REQ_NONE
           /\ g_trans.ErrorCode = res)
\* A read of a stalled card that gave up waiting for the data-start token
\* when its timer had expired.
C12_Witness ==
    /\ card_kind = "stalled"
    /\ accepted.Request = REQ_READ
    /\ next_state = "S_IDLE"
    /\ g_trans.Status = "STAT_IDLE"
    /\ g_trans.ErrorCode = "SD_ERROR"
    /\ tkn = 255
    /\ dev[0].read = 1
    /\ probe.any
    /\ probe.refused

\* C19: a read or a write that sent its command has released the bus when
\* it returns, whatever it reports.
C19_BusReleased ==
    ((ReadReturned \/ WriteReturned) /\ probe.arg # -1) => bus = "released"

\* C20: a read adds one to the read counter, and a write one to the write
\* counter, exactly when the card accepted its command; nothing else
\* changes a counter.
C20_Counters ==
    /\ ReadReturned =>
          /\ dev[0].write = call.writes
          /\ dev[0].read = call.reads + (IF probe.cmd_ok THEN 1 ELSE 0)
    /\ WriteReturned =>
          /\ dev[0].read = call.reads
          /\ dev[0].write = call.writes + (IF probe.cmd_ok THEN 1 ELSE 0)

\* The number of data bytes of the block that lie in the window.
BytesInWindow(ofs, cnt) ==
    IF ofs >= SD_BLK_SIZE THEN 0
    ELSE (IF ofs + cnt < SD_BLK_SIZE THEN ofs + cnt ELSE SD_BLK_SIZE) - ofs

\* C22: for every window, also one that reaches beyond the block, a read that
\* reports SD_OK has stored the data bytes of the block that lie in the
\* window, in order, and nothing else: the two CRC bytes are not stored and
\* the number of bytes stored is the number of data bytes in the window.
C22_ReadClipsWindow ==
    (ReadReturned /\ res = "SD_OK" /\ call.cnt > 0)
       => /\ \A i \in 0..(BufLen - 1) :
                mem[call.dat][i] =
                    IF i < BytesInWindow(call.ofs, call.cnt)
                    THEN card_blocks[call.sector][call.ofs + i]
                    ELSE call.before[i]
          /\ pointer.off = BytesInWindow(call.ofs, call.cnt)

\* C23: a read whose command the card accepted and that got no data-start
\* token, because the timeout came first or because another byte than 0xFF
\* and 0xFE arrived, reports SD_ERROR, has released the bus, has clocked no
\* byte of the data packet out of the card and has stored nothing.
C23_NoTokenNoData ==
    (ReadReturned /\ probe.cmd_ok /\ tkn # 254)
       => /\ res = "SD_ERROR"
          /\ bus = "released"
          /\ card_pos = 0
          /\ pointer.off = 0
          /\ mem[call.dat] = call.before
          /\ ~oob
\* The timeout: the last byte polled was 0xFF.
C23_Witness ==
    /\ ReadReturned
    /\ probe.cmd_ok
    /\ tkn = 255
    /\ res = "SD_ERROR"
    /\ call.before = RampBuffer
    /\ call.cnt = SD_BLK_SIZE

(***************************************************************************)
(* The stepped SD_Read against the blocking SD_Read of Project_2B, checked *)
(* under SpecRefine.                                                       *)
(***************************************************************************)
\* The behaviour of the card the stepped read met: the idle bytes before
\* the first byte that was not 0xFF, and that byte (0xFF: none came).
TokensSeen == {i \in 1..Len(rx_log) : rx_log[i] # 255}
FirstTokenSeen == CHOOSE i \in TokensSeen : \A j \in TokensSeen : i <= j
IdleSeen == IF TokensSeen = {} THEN Len(rx_log) ELSE FirstTokenSeen - 1
TokenSeen == IF TokensSeen = {} THEN 255 ELSE rx_log[FirstTokenSeen]
\* One call of the blocking read with the arguments of the call, on the
\* buffers and the device of the moment of the call, against that behaviour.
BlockingOutcome ==
    SD_Read_2B(dev[0].last_sector, [mem EXCEPT ![call.dat] = call.before],
               call.dat, call.sector, call.ofs, call.cnt, probe.cmd_ok,
               IdleSeen, TokenSeen, card_blocks)

\* C28: when the card refused the command of a read or sent a token other
\* than 0xFF before the timeout, the stepped read, called until it reports
\* completion, has received the bytes one call of the blocking read
\* receives, left the buffers and the read counter as that call leaves
\* them, released the bus and returned the same result.
C28_SteppedEqualsBlocking ==
    (ReadReturned /\ probe.arg # -1 /\ (probe.cmd_ok => TokenSeen # 255))
       => /\ res = BlockingOutcome.res
          /\ rx_log = BlockingOutcome.rx
          /\ mem = BlockingOutcome.mem
          /\ pointer.off = BlockingOutcome.off
          /\ BlockingOutcome.oob => oob
          /\ dev[0].read = call.reads + BlockingOutcome.reads
          /\ dev[0].write = call.writes
          /\ bus = "released"
\* A read of bytes 10..14 met MaxIdle idle bytes, then the data-start token
\* and the data packet.
C28_Witness ==
    /\ ReadReturned
    /\ res = "SD_OK"
    /\ call.ofs = 10 /\ call.cnt = 5
    /\ call.before = RampBuffer
    /\ IdleSeen = MaxIdle
    /\ Len(rx_log) = MaxIdle + 1 + SD_BLK_SIZE + 2

(***************************************************************************)
(* Properties of SD_Init.                                                  *)
(***************************************************************************)
\* C13: every invocation of the dispatcher returns to its caller, whatever
\* the card sends: no step is inside a wait that has no timeout.
C13_EveryStepReturns == ~blocked

\* The negotiation of the caller has returned and nothing was done since.
InitReturned == pc = "returned" /\ call.fn = "init"
InitCalling == pc = "calling" /\ call.fn = "init"

\* What C14 says of a negotiation against a version-1 card: no trailer byte
\* of the voltage probe is read, and the negotiation returns with SD_OK, the
\* card type SD version 1 and the device mounted.
V1Safe ==
    /\ (call.fn = "init") => ~probe.trailer
    /\ InitReturned =>
          /\ res = "SD_OK"
          /\ dev[0].cardtype = {"SD1"}
          /\ dev[0].mount

V2Safe ==
    InitReturned =>
       /\ res = "SD_OK"
       /\ dev[0].mount
       /\ "SD2" \in dev[0].cardtype
       /\ dev[0].cardtype \subseteq {"SD2", "BLOCK"}
       /\ ("BLOCK" \in dev[0].cardtype) <=> ((ocr[1] \div 64) % 2 = 1)

C16_RetryBudget ==
    /\ (call.fn = "init") => probe.resets <= SD_INIT_TRYS
    /\ (InitReturned /\ res = "SD_NOINIT") =>
          /\ probe.resets = SD_INIT_TRYS
          /\ ct = {}
          /\ init_trys = 0
\* The second negotiation of a sequence spends its own budget.
C16_Witness ==
    /\ InitReturned
    /\ ncalls = 2
    /\ res = "SD_NOINIT"
    /\ probe.resets = SD_INIT_TRYS
    /\ ct = {}

\* C17: every negotiation starts from no card type and a fresh retry
\* counter: each one, the one after a successful negotiation too, has reset
\* the bus at least once when it returns.
C17_NegotiatesAgain == InitReturned => probe.resets >= 1

\* C18: against a card that never acknowledges go-idle, a negotiation
\* stepped again and again leaves the go-idle polling, spends its retries
\* and returns SD_NOINIT.
C18_GoIdleBounded ==
    (InitCalling /\ card_kind = "deaf")
       ~> (InitReturned /\ res = "SD_NOINIT")

(***************************************************************************)
(* The capacity a negotiation stores, checked under SpecCapacity.          *)
(***************************************************************************)
\* The field C_SIZE of the version-2 register layout, bits [69:48].
V2_C_SIZE(csd) == (csd[7] % 64) * 65536 + csd[8] * 256 + csd[9]
\* (c + 1) * 1024 - 1 as a DWORD.
V2LastSector(c) ==
    DwPred(<<((c + 1) \div 64) % WORD_MOD, ((c + 1) % 64) * 1024>>)

\* C26: a negotiation against a version-2 card that returned SD_OK and whose
\* CMD9 the card accepted has set last_sector to (C_SIZE + 1) * 1024 - 1,
\* C_SIZE being the 22 bits [69:48] of the register the card holds.
C26_V2Capacity ==
    (InitReturned /\ card_kind = "v2" /\ res = "SD_OK" /\ probe.csd_ok)
       => dev[0].last_sector = V2LastSector(V2_C_SIZE(card_csd))

\* The fields of the version-1 register layout: READ_BL_LEN [83:80],
\* C_SIZE [73:62], C_SIZE_MULT [49:47].
V1_READ_BL_LEN(csd) == csd[5] % 16
V1_C_SIZE(csd) == (csd[6] % 4) * 1024 + csd[7] * 4 + (csd[8] \div 64)
V1_C_SIZE_MULT(csd) == (csd[9] % 4) * 2 + (csd[10] \div 128)
\* (C_SIZE + 1) * 2^(C_SIZE_MULT + 2) * 2^READ_BL_LEN / 512.
V1Sectors(csd) ==
    LET blocks == (V1_C_SIZE(csd) + 1) * 2^(V1_C_SIZE_MULT(csd) + 2)
        len == V1_READ_BL_LEN(csd)
    IN  IF len >= 9 THEN blocks * 2^(len - 9)
        ELSE (blocks * 2^len) \div 512

\* C27: a negotiation against a version-1 card that returned SD_OK and whose
\* CMD9 the card accepted has set last_sector to the number of 512-byte
\* sectors the three fields of the register give, less one, for every
\* register whose READ_BL_LEN is a block length of 512, 1024 or 2048 bytes.
C27_V1Capacity ==
    (/\ InitReturned /\ card_kind = "v1" /\ res = "SD_OK" /\ probe.csd_ok
     /\ V1_READ_BL_LEN(card_csd) \in 9..11)
       => dev[0].last_sector = DW(V1Sectors(card_csd) - 1)

\* C32: a negotiation that returned SD_OK and left the device mounted has
\* decoded last_sector from a register the card sent in reply to CMD9: it
\* never leaves a mounted device whose CMD9 the card rejected and whose
\* last_sector is 0 - 1, which no sector number exceeds.
C32_CapacityFromRegister ==
    (InitReturned /\ res = "SD_OK" /\ dev[0].mount)
       => /\ probe.csd_ok
          /\ dev[0].last_sector # DwPred(DW(0))

(***************************************************************************)
(* The device descriptor across operations.                                *)
(***************************************************************************)
\* The fields of a descriptor the negotiation sets.
Mounting(dv) == <<dv.cardtype, dv.mount, dv.last_sector>>
\* C29: no step of a read or a write changes the card type, the mounted flag
\* or the last sector of a device; a step of a read changes at most the read
\* counter and a step of a write at most the write counter.
C29_ReadWriteFrame ==
    [][\A d \in DevIds :
          /\ Mounting(dev'[d]) = Mounting(dev[d])
          /\ (pc = "calling" /\ call.fn = "read")
                => dev'[d].write = dev[d].write
          /\ (pc = "calling" /\ call.fn = "write")
                => dev'[d].read = dev[d].read
          /\ (d # 0 \/ pc # "calling") => dev'[d] = dev[d]]_vars
\* Two reads and a write have been made: the descriptor is the mounted one
\* with three operations counted, the other device is untouched.
C29_Witness ==
    /\ WriteReturned
    /\ res = "SD_OK"
    /\ dev[0].read = 2
    /\ dev[0].write = 1
    /\ Mounting(dev[0]) = <<{"MMC"}, TRUE, DW(3)>>
    /\ dev[1] = NoDevice

\* C21: whatever the sequence of init, read and write transactions, no step
\* makes the read counter or the write counter of a device smaller.
C21_CountersNeverDecrease ==
    [][\A d \in DevIds : /\ dev'[d].read >= dev[d].read
                         /\ dev'[d].write >= dev[d].write]_vars

====
